---- MODULE Spec2Model ----
(***************************************************************************)
(* A model of the Stacks wallet helpers (helper/chain/stacks-connect.js)   *)
(* and of the Arkadiko flows built on them (the vault, deposit and swap    *)
(* flows and exampleUserFlow).                                             *)
(*                                                                         *)
(* A JavaScript object is a record; a property that is omitted (or holds   *)
(* undefined) is a key missing from the record's DOMAIN.  A string is a    *)
(* sequence of atoms: the atom "." is the character '.', every other atom  *)
(* is a run of characters without a '.'.  The external boundaries          *)
(* (openContractCall, openSTXTransfer, showConnect,                        *)
(* fetchCallReadOnlyFunction) are the environment: they receive the        *)
(* request object the code builds and later call its handlers.             *)
(***************************************************************************)
EXTENDS Naturals, Sequences, FiniteSets, TLC

VARIABLES
  calls,       \* the invocations of exported functions made so far, in order
  nSignals,    \* completion signals the external signer has sent so far
  idString,    \* the identifier string handed to the parsing steps
  parsed       \* <<>> before parsing, then <<the parsed pair>>

vars == <<calls, nSignals, idString, parsed>>

(***************************************************************************)
(* Bounds of the model.                                                    *)
(***************************************************************************)
MaxFlows == 1        \* invocations in Spec (every function, every input)
MaxCalls == 2        \* invocations in SpecConcurrent
MaxSignals == 2      \* completion signals the signer sends in SpecConcurrent
MaxFlowSignals == 3  \* completion signals the signer sends in Spec
MaxLen == 3          \* characters of an identifier string in SpecParse

(***************************************************************************)
(* Strings: String.prototype.split('.') and array destructuring.           *)
(***************************************************************************)
Dot == "."

HasDot(s) == \E i \in 1..Len(s) : s[i] = Dot

FirstDot(s) == CHOOSE i \in 1..Len(s) : s[i] = Dot /\ \A j \in 1..(i-1) : s[j] # Dot

\* A variant that cuts at the first '.' only.
SplitAtFirstDot(s) ==
  IF ~HasDot(s) THEN <<s>>
  ELSE <<SubSeq(s, 1, FirstDot(s) - 1), SubSeq(s, FirstDot(s) + 1, Len(s))>>

\* s.split('.'): the parts between every two separators, in order.
RECURSIVE Split(_)
Split(s) ==
  IF ~HasDot(s) THEN <<s>>
  ELSE <<SubSeq(s, 1, FirstDot(s) - 1)>> \o Split(SubSeq(s, FirstDot(s) + 1, Len(s)))

\* const [address, name] = parts, and parts[0], parts[1]: an index past the
\* end of the array gives undefined.
TakeTwo(parts) ==
  IF Len(parts) >= 2 THEN [address |-> parts[1], name |-> parts[2]]
  ELSE [address |-> parts[1]]

\* const [contractAddress, contractName] = id.split('.')
ParseContractId(s) == TakeTwo(Split(s))

\* id.split('.')[0], id.split('.')[1]
ParseIndexed(s) ==
  [address |-> Split(s)[1]]
    @@ (IF 2 \in DOMAIN Split(s) THEN [name |-> Split(s)[2]] ELSE [k \in {} |-> TRUE])

\* address + '.' + name
Rejoin(id) == id.address \o <<Dot>> \o id.name

NumDots(s) == Cardinality({i \in 1..Len(s) : s[i] = Dot})

(***************************************************************************)
(* Objects.                                                                *)
(***************************************************************************)
NoProps == [k \in {} |-> TRUE]                   \* {}
Get(p, k, d) == IF k \in DOMAIN p THEN p[k] ELSE d   \* a destructuring default
Copy(p, ks) == [k \in (DOMAIN p \cap ks) |-> p[k]]   \* the named properties of p

(***************************************************************************)
(* Promises: new Promise((resolve, reject) => ...).  resolve and reject    *)
(* act on a pending promise only.                                          *)
(***************************************************************************)
SpeculativeOutcome == [state |-> "resolved", value |-> [txId |-> <<"tx">>, txRaw |-> <<"raw">>]]

NewPromise == [state |-> "pending"]

Resolve(p, v) == IF p.state = "pending" THEN [state |-> "resolved", value |-> v] ELSE p

Reject(p, e) == IF p.state = "pending" THEN [state |-> "rejected", value |-> e] ELSE p

\* new Error(message)
Error(message) == [kind |-> "Error", message |-> message]

(***************************************************************************)
(* Clarity values and post-conditions, as the library's constructors tag   *)
(* them.                                                                   *)
(***************************************************************************)
uintCV(v) == [type |-> "uint", value |-> v]
stringAsciiCV(v) == [type |-> "string-ascii", value |-> v]
standardPrincipalCV(a) == [type |-> "principal", address |-> a]
contractPrincipalCV(id) == [type |-> "contract"] @@ id

makeStandardSTXPostCondition(address, code, amount) ==
  [principal |-> address, assetKind |-> "STX", comparator |-> code, amount |-> amount]

\* testnet ? new StacksTestnet() : new StacksMainnet(), with testnet = false
\* when omitted
AlwaysMainnet(p) == "Mainnet"

NetworkOf(p) == IF Get(p, "testnet", FALSE) THEN "Testnet" ELSE "Mainnet"

(***************************************************************************)
(* The gateway functions.  Each builds the request object it hands to its  *)
(* external boundary; the request keeps the promise its handlers settle    *)
(* and the caller's callbacks they captured.                               *)
(***************************************************************************)
Request(boundary, gateway, payload, closure) ==
  [boundary |-> boundary, gateway |-> gateway, payload |-> payload,
   closure |-> closure, promise |-> NewPromise, events |-> <<>>]

CallerMode(p) == Get(p, "postConditionMode", "Deny")

StrictMode(p) == "Deny"                          \* PostConditionMode.Deny

connectWallet(p) ==
  Request("showConnect", "connectWallet",
          [appDetails |-> [name |-> Get(p, "appName", "DefiLlama Adapter"),
                           icon |-> Get(p, "appIconUrl", "https://defillama.com/favicon.ico")]],
          NoProps)

callReadOnlyFunction(p) ==
  Request("fetchCallReadOnlyFunction", "callReadOnlyFunction",
          Copy(p, {"contractAddress", "contractName", "functionName", "senderAddress"})
            @@ [network |-> NetworkOf(p), functionArgs |-> Get(p, "functionArgs", <<>>)],
          NoProps)

executeContractCall(p) ==
  Request("openContractCall", "executeContractCall",
          Copy(p, {"contractAddress", "contractName", "functionName"})
            @@ [network |-> NetworkOf(p),
                functionArgs |-> Get(p, "functionArgs", <<>>),
                postConditions |-> Get(p, "postConditions", <<>>),
                postConditionMode |-> StrictMode(p)],
          Copy(p, {"onFinish", "onCancel"}))

\* amount.toString(): a number [num |-> n] becomes its decimal digits, a string
\* [str |-> digits] is its own toString
RECURSIVE Digits(_)
Digits(n) == IF n < 10 THEN <<n>> ELSE Digits(n \div 10) \o <<n % 10>>

AmountToString(amount) ==
  IF "num" \in DOMAIN amount THEN [str |-> Digits(amount.num)] ELSE amount

transferSTX(p) ==
  Request("openSTXTransfer", "transferSTX",
          Copy(p, {"recipient"})
            @@ [network |-> NetworkOf(p), amount |-> AmountToString(p.amount),
                memo |-> Get(p, "memo", "")],
          Copy(p, {"onFinish", "onCancel"}))

(***************************************************************************)
(* The Arkadiko flows.                                                     *)
(***************************************************************************)
ArkadikoDeployer == "SP2C2YFP12AJZB4MABJBAJ55XECVS7E4PMMZ89YZR"

ARKADIKO_CONTRACTS ==
  [vaultsPool    |-> <<ArkadikoDeployer, Dot, "arkadiko-vaults-pool-active-v1-1">>,
   swap          |-> <<ArkadikoDeployer, Dot, "arkadiko-swap-v2-1">>,
   vaultsManager |-> <<ArkadikoDeployer, Dot, "arkadiko-freddie-v1-1">>,
   oracle        |-> <<ArkadikoDeployer, Dot, "arkadiko-oracle-v2-3">>,
   dikoToken     |-> <<ArkadikoDeployer, Dot, "arkadiko-token">>,
   usdaToken     |-> <<ArkadikoDeployer, Dot, "usda-token">>]

\* { contractAddress, contractName } of a destructured identifier
Target(id) ==
  [contractAddress |-> id.address]
    @@ (IF "name" \in DOMAIN id THEN [contractName |-> id.name] ELSE NoProps)

\* a callback that writes to the console and returns
ConsoleLog == "returns"

\* clarityHelpers
toUint(v) == uintCV(v)
toAscii(v) == stringAsciiCV(v)
toPrincipal(a) == standardPrincipalCV(a)
toContract(id) == contractPrincipalCV(id)

getUserVault(p) ==
  callReadOnlyFunction(
    Target(ParseContractId(ARKADIKO_CONTRACTS.vaultsManager))
      @@ [functionName |-> "get-vault-by-id",
          functionArgs |-> <<toUint(p.vaultId)>>,
          senderAddress |-> p.userAddress])

CollateralPostCondition(p) ==
  <<makeStandardSTXPostCondition(p.userAddress, "LessEqual", p.collateralAmount)>>

openVault(p) ==
  executeContractCall(
    Target(ParseContractId(ARKADIKO_CONTRACTS.vaultsManager))
      @@ [functionName |-> "collateralize-and-mint",
          functionArgs |-> <<toUint(p.collateralAmount), toUint(p.debtAmount),
                             toAscii("STX-A"), toPrincipal(p.userAddress)>>,
          postConditions |-> CollateralPostCondition(p),
          postConditionMode |-> "Deny",
          onFinish |-> ConsoleLog,
          onCancel |-> ConsoleLog])

depositCollateral(p) ==
  executeContractCall(
    Target(ParseContractId(ARKADIKO_CONTRACTS.vaultsManager))
      @@ [functionName |-> "deposit",
          functionArgs |-> <<toUint(p.vaultId), toUint(p.amount)>>,
          postConditions |-> <<makeStandardSTXPostCondition(p.userAddress, "Equal", p.amount)>>,
          onFinish |-> ConsoleLog])

swapTokens(p) ==
  executeContractCall(
    Target(ParseContractId(ARKADIKO_CONTRACTS.swap))
      @@ [functionName |-> "swap-x-for-y",
          functionArgs |-> <<toContract(ParseContractId(p.tokenX)),
                             toContract(ParseContractId(p.tokenY)),
                             toUint(p.amountIn), toUint(p.minAmountOut)>>,
          postConditions |-> <<>>,
          onFinish |-> ConsoleLog])

getStxPrice(p) ==
  callReadOnlyFunction(
    Target(ParseContractId(ARKADIKO_CONTRACTS.oracle))
      @@ [functionName |-> "get-price",
          functionArgs |-> <<toAscii("STX")>>,
          senderAddress |-> p.senderAddress])

exampleSwapTokens(p) ==
  executeContractCall(
    Target(ParseContractId(p.dexContract))
      @@ [functionName |-> "swap",
          functionArgs |-> <<contractPrincipalCV(ParseIndexed(p.tokenIn)),
                             contractPrincipalCV(ParseIndexed(p.tokenOut)),
                             uintCV(p.amountIn), uintCV(p.minAmountOut)>>,
          postConditions |-> <<makeStandardSTXPostCondition(p.userAddress, "LessEqual", p.amountIn)>>,
          onFinish |-> ConsoleLog,
          onCancel |-> ConsoleLog])

\* The identifier strings a flow hands to contractPrincipalCV.
TokenStrings(api, p) ==
  CASE api = "swapTokens" -> {p.tokenX, p.tokenY}
    [] api = "exampleSwapTokens" -> {p.tokenIn, p.tokenOut}
    [] OTHER -> {}

\* contractPrincipalCV is the library's: given a name that is undefined it may
\* throw or may build a value without a name, depending on the library.
EncoderThrows(api, p) ==
  IF \E t \in TokenStrings(api, p) : "name" \notin DOMAIN ParseContractId(t)
  THEN BOOLEAN ELSE {FALSE}

EncoderError == [kind |-> "TypeError", message |-> "contractPrincipalCV"]

(***************************************************************************)
(* exampleUserFlow: connectWallet, getStxPrice, openVault, getUserVault,   *)
(* each awaited; any error is logged and thrown again.                     *)
(***************************************************************************)
ExampleCollateral == 1000000000
ExampleDebt == 500000000
ExampleVaultId == 1

ExampleUserFlowSwallow(error) == [state |-> "resolved", value |-> NoProps]

ExampleUserFlowCatch(error) == [state |-> "rejected", value |-> error]

\* The request the invocation hands out before its first await.
FirstRequest(api, p) ==
  CASE api = "connectWallet" -> connectWallet(p)
    [] api = "callReadOnlyFunction" -> callReadOnlyFunction(p)
    [] api = "executeContractCall" -> executeContractCall(p)
    [] api = "transferSTX" -> transferSTX(p)
    [] api = "exampleSwapTokens" -> exampleSwapTokens(p)
    [] api = "getUserVault" -> getUserVault(p)
    [] api = "openVault" -> openVault(p)
    [] api = "depositCollateral" -> depositCollateral(p)
    [] api = "swapTokens" -> swapTokens(p)
    [] api = "getStxPrice" -> getStxPrice(p)
    [] api = "exampleUserFlow" ->
         connectWallet([appName |-> "Arkadiko Protocol",
                        appIconUrl |-> "https://arkadiko.finance/favicon.ico"])

Started(api, p) ==
  [api |-> api, params |-> p,
   pc |-> IF api = "exampleUserFlow" THEN "connect" ELSE "await",
   reqs |-> <<FirstRequest(api, p)>>, result |-> NewPromise, locals |-> NoProps]

Thrown(api, p, error) ==
  [api |-> api, params |-> p, pc |-> "done",
   reqs |-> <<>>, result |-> Reject(NewPromise, error), locals |-> NoProps]

\* The code that runs when the awaited promise pr settles.
exampleUserFlowStep(call, pr) ==
  IF pr.state = "rejected"
    THEN [call EXCEPT !.pc = "done", !.result = ExampleUserFlowCatch(pr.value)]
  ELSE CASE call.pc = "connect" ->
         [call EXCEPT !.pc = "price",
                      !.locals = [userAddress |-> pr.value.userAddress,
                                  userData |-> pr.value.userData],
                      !.reqs = Append(@, getStxPrice([senderAddress |-> pr.value.userAddress]))]
    [] call.pc = "price" ->
         [call EXCEPT !.pc = "vault",
                      !.locals = @ @@ [stxPrice |-> pr.value],
                      !.reqs = Append(@, openVault([collateralAmount |-> ExampleCollateral,
                                                    debtAmount |-> ExampleDebt,
                                                    userAddress |-> call.locals.userAddress]))]
    [] call.pc = "vault" ->
         [call EXCEPT !.pc = "details",
                      !.locals = @ @@ [vaultTx |-> pr.value],
                      !.reqs = Append(@, getUserVault([userAddress |-> call.locals.userAddress,
                                                       vaultId |-> ExampleVaultId]))]
    [] call.pc = "details" ->
         [call EXCEPT !.pc = "done",
                      !.result = [state |-> "resolved",
                                  value |-> [userAddress |-> call.locals.userAddress,
                                             vaultTx |-> call.locals.vaultTx,
                                             vaultDetails |-> pr.value]]]

\* A function that returns the gateway's promise settles as that promise does.
Continue(call) ==
  LET pr == call.reqs[Len(call.reqs)].promise
  IN IF call.api = "exampleUserFlow" THEN exampleUserFlowStep(call, pr)
     ELSE [call EXCEPT !.pc = "done", !.result = pr]

(***************************************************************************)
(* The external boundaries.  The signer's k-th signal to request r of      *)
(* invocation c carries data of its own; the remote query service answers  *)
(* once.                                                                   *)
(***************************************************************************)
SignerBoundaries == {"showConnect", "openContractCall", "openSTXTransfer"}

WalletAddress == "SP-WALLET-USER"

SignerData(c, r, k) ==
  [txId |-> <<"tx", c, r, k>>, txRaw |-> <<"raw", c, r, k>>,
   userData |-> [profile |-> [stxAddress |-> [mainnet |-> WalletAddress,
                                              testnet |-> "ST-WALLET-USER"]]]]

QueryResult(c, r) == [okay |-> <<"cv", c, r>>]

QueryError == [kind |-> "FetchError", message |-> "read-only call failed"]

Signals(req) == Cardinality({i \in 1..Len(req.events) : req.events[i].ev = "signal"})

(***************************************************************************)
(* The handlers the gateway functions put in their requests.  events       *)
(* records, in order, what a handler did: the caller's callback it called  *)
(* and the resolve or reject it called.                                    *)
(***************************************************************************)
SignalEvent(name, k) == [ev |-> "signal", name |-> name, signal |-> k]

CallbackEvents(req, name, args, k) ==
  IF name \in DOMAIN req.closure
  THEN <<[ev |-> "callback", name |-> name, args |-> args,
          threw |-> (req.closure[name] = "throws"), signal |-> k]>>
  ELSE <<>>

CallbackThrows(req, name) == name \in DOMAIN req.closure /\ req.closure[name] = "throws"

SettleEvent(how, value, k) == [ev |-> how, value |-> value, signal |-> k]

OutcomeOfFirstCall(data) ==
  [txId |-> <<"tx", 1, 1, 1>>, txRaw |-> <<"raw", 1, 1, 1>>]

\* { txId: data.txId, txRaw: data.txRaw }
Outcome(data) == [txId |-> data.txId, txRaw |-> data.txRaw]

CancelMessage(gateway) ==
  CASE gateway = "connectWallet" -> "User cancelled wallet connection"
    [] gateway = "executeContractCall" -> "User cancelled transaction"
    [] gateway = "transferSTX" -> "User cancelled STX transfer"

\* A variant that settles first and calls the caller's callback afterwards.
SubmitOnFinishSettleFirst(req, data, k) ==
  [req EXCEPT !.events = @ \o <<SignalEvent("onFinish", k),
                                SettleEvent("resolve", Outcome(data), k)>>
                           \o CallbackEvents(req, "onFinish", <<data>>, k),
              !.promise = Resolve(@, Outcome(data))]

\* onFinish: (data) => { if (onFinish) onFinish(data); resolve({...}) }
SubmitOnFinish(req, data, k) ==
  IF CallbackThrows(req, "onFinish")
  THEN [req EXCEPT !.events = @ \o <<SignalEvent("onFinish", k)>>
                                \o CallbackEvents(req, "onFinish", <<data>>, k)]
  ELSE [req EXCEPT !.events = @ \o <<SignalEvent("onFinish", k)>>
                                \o CallbackEvents(req, "onFinish", <<data>>, k)
                                \o <<SettleEvent("resolve", Outcome(data), k)>>,
                   !.promise = Resolve(@, Outcome(data))]

\* A variant that treats a cancellation as an empty success.
SubmitOnCancelSwallow(req, k) ==
  [req EXCEPT !.events = @ \o <<SignalEvent("onCancel", k)>>
                           \o CallbackEvents(req, "onCancel", <<>>, k)
                           \o <<SettleEvent("resolve", NoProps, k)>>,
              !.promise = Resolve(@, NoProps)]

\* onCancel: () => { if (onCancel) onCancel(); reject(new Error(...)) }
SubmitOnCancel(req, k) ==
  IF CallbackThrows(req, "onCancel")
  THEN [req EXCEPT !.events = @ \o <<SignalEvent("onCancel", k)>>
                                \o CallbackEvents(req, "onCancel", <<>>, k)]
  ELSE [req EXCEPT !.events = @ \o <<SignalEvent("onCancel", k)>>
                                \o CallbackEvents(req, "onCancel", <<>>, k)
                                \o <<SettleEvent("reject", Error(CancelMessage(req.gateway)), k)>>,
                   !.promise = Reject(@, Error(CancelMessage(req.gateway)))]

\* connectWallet's onFinish: resolve({ userAddress, userData })
ConnectOnFinish(req, data, k) ==
  LET session == [userAddress |-> data.userData.profile.stxAddress.mainnet,
                  userData |-> data.userData]
  IN [req EXCEPT !.events = @ \o <<SignalEvent("onFinish", k),
                                   SettleEvent("resolve", session, k)>>,
                 !.promise = Resolve(@, session)]

\* connectWallet's onCancel: reject(new Error(...))
ConnectOnCancel(req, k) ==
  [req EXCEPT !.events = @ \o <<SignalEvent("onCancel", k),
                                SettleEvent("reject", Error(CancelMessage(req.gateway)), k)>>,
              !.promise = Reject(@, Error(CancelMessage(req.gateway)))]

OnFinish(req, data, k) ==
  IF req.gateway = "connectWallet" THEN ConnectOnFinish(req, data, k)
  ELSE SubmitOnFinish(req, data, k)

OnCancel(req, k) ==
  IF req.gateway = "connectWallet" THEN ConnectOnCancel(req, k)
  ELSE SubmitOnCancel(req, k)

(***************************************************************************)
(* Actions.                                                                *)
(***************************************************************************)
\* The caller invokes an exported function: it runs up to its first await.
Invoke(api, p, max) ==
  /\ Len(calls) < max
  /\ \E throws \in EncoderThrows(api, p) :
       calls' = Append(calls, IF throws THEN Thrown(api, p, EncoderError)
                              ELSE Started(api, p))
  /\ UNCHANGED <<nSignals, idString, parsed>>

\* Request r of invocation c becomes req; when that settles the promise the
\* invocation awaits, the invocation runs on to its next await or its end.
Deliver(c, r, req) ==
  LET call == calls[c]
      updated == [call EXCEPT !.reqs[r] = req]
  IN calls' = [calls EXCEPT ![c] =
       IF /\ r = Len(call.reqs)
          /\ call.pc # "done"
          /\ call.reqs[r].promise.state = "pending"
          /\ req.promise.state # "pending"
       THEN Continue(updated) ELSE updated]

\* The signer reports that the user approved request r of invocation c.
SignerFinish(c, r, max) ==
  /\ calls[c].reqs[r].boundary \in SignerBoundaries
  /\ nSignals < max
  /\ nSignals' = nSignals + 1
  /\ Deliver(c, r, OnFinish(calls[c].reqs[r],
                            SignerData(c, r, Signals(calls[c].reqs[r]) + 1),
                            Signals(calls[c].reqs[r]) + 1))
  /\ UNCHANGED <<idString, parsed>>

\* The signer reports that the user cancelled request r of invocation c.
SignerCancel(c, r, max) ==
  /\ calls[c].reqs[r].boundary \in SignerBoundaries
  /\ nSignals < max
  /\ nSignals' = nSignals + 1
  /\ Deliver(c, r, OnCancel(calls[c].reqs[r], Signals(calls[c].reqs[r]) + 1))
  /\ UNCHANGED <<idString, parsed>>

\* The remote service answers read-only request r of invocation c.
QueryRespond(c, r, ok) ==
  /\ calls[c].reqs[r].boundary = "fetchCallReadOnlyFunction"
  /\ calls[c].reqs[r].promise.state = "pending"
  /\ Deliver(c, r, [calls[c].reqs[r] EXCEPT
                      !.promise = IF ok THEN Resolve(@, QueryResult(c, r))
                                  ELSE Reject(@, QueryError)])
  /\ UNCHANGED <<nSignals, idString, parsed>>

Requests == UNION {{<<c, r>> : r \in 1..Len(calls[c].reqs)} : c \in 1..Len(calls)}

\* The identifier string is destructured: const [address, name] = s.split('.')
ParseDestructured ==
  /\ parsed = <<>>
  /\ parsed' = <<[form |-> "destructured", id |-> ParseContractId(idString)]>>
  /\ UNCHANGED <<calls, nSignals, idString>>

\* The identifier string is indexed: s.split('.')[0], s.split('.')[1]
ParseByIndex ==
  /\ parsed = <<>>
  /\ parsed' = <<[form |-> "indexed", id |-> ParseIndexed(idString)]>>
  /\ UNCHANGED <<calls, nSignals, idString>>

(***************************************************************************)
(* The inputs the callers draw from.                                       *)
(***************************************************************************)
Users == {"SP-USER"}
Amounts == {1, 2}
Alphabet == {"a", "b", Dot}
Strings == UNION {[1..n -> Alphabet] : n \in 0..MaxLen}

OptTestnet == {NoProps, [testnet |-> TRUE], [testnet |-> FALSE]}
OptFlowTestnet == {NoProps, [testnet |-> TRUE]}
OptArgs == {NoProps, [functionArgs |-> <<uintCV(1), uintCV(2)>>]}
OptPostConditions ==
  {NoProps, [postConditions |-> <<makeStandardSTXPostCondition("SP-USER", "LessEqual", 1)>>]}
OptMode == {NoProps, [postConditionMode |-> "Allow"]}
OptCallbacks ==
  {f @@ c : f \in {NoProps, [onFinish |-> "returns"], [onFinish |-> "throws"]},
            c \in {NoProps, [onCancel |-> "returns"], [onCancel |-> "throws"]}}

\* identifier strings: well formed, and without a '.'
TokenIds == {<<"SP-TOKENS", Dot, "usda-token">>, <<"SP-TOKENS-usda-token">>}
DexIds == {<<"SP-DEX", Dot, "dex-v1">>, <<"SP-DEX-dex-v1">>}

CallTarget == [contractAddress |-> "SP-DEX", contractName |-> "dex-v1", functionName |-> "swap"]
TransferTarget == [recipient |-> "SP-RECIPIENT"]

ConnectInputs == {NoProps, [appName |-> "App"]}

ReadOnlyInputs ==
  {CallTarget @@ [senderAddress |-> u, functionArgs |-> <<uintCV(1)>>] @@ t :
     u \in Users, t \in OptTestnet}

ExecuteInputs ==
  {CallTarget @@ a @@ pc @@ t @@ m :
     a \in OptArgs, pc \in OptPostConditions, t \in OptTestnet, m \in OptMode}

TransferInputs ==
  {TransferTarget @@ [amount |-> a] @@ t :
     a \in {[num |-> 12], [str |-> <<1, 2>>]}, t \in OptTestnet}

ExampleSwapInputs ==
  {[dexContract |-> d, tokenIn |-> x, tokenOut |-> y, amountIn |-> 2,
    minAmountOut |-> 1, userAddress |-> u] :
     d \in DexIds, x \in TokenIds, y \in TokenIds, u \in Users}

GetUserVaultInputs == {[userAddress |-> u, vaultId |-> 1] : u \in Users}

OpenVaultInputs ==
  {[collateralAmount |-> a, debtAmount |-> d, userAddress |-> u] @@ t :
     a \in Amounts, d \in Amounts, u \in Users, t \in OptFlowTestnet}

DepositInputs ==
  {[vaultId |-> 1, amount |-> a, userAddress |-> u] @@ t :
     a \in Amounts, u \in Users, t \in OptFlowTestnet}

SwapInputs ==
  {[tokenX |-> x, tokenY |-> y, amountIn |-> 2, minAmountOut |-> 1, userAddress |-> u] @@ t :
     x \in TokenIds, y \in TokenIds, u \in Users, t \in OptFlowTestnet}

GetStxPriceInputs == {[senderAddress |-> u] : u \in Users}

\* submits with the caller's callbacks
ExecuteCallbackInputs == {CallTarget @@ cb : cb \in OptCallbacks}
TransferCallbackInputs ==
  {TransferTarget @@ [amount |-> [num |-> 12]] @@ cb :
     cb \in {NoProps} \cup {[onFinish |-> b, onCancel |-> b] : b \in {"returns", "throws"}}}

(***************************************************************************)
(* Specifications.                                                         *)
(***************************************************************************)
Init ==
  /\ calls = <<>>
  /\ nSignals = 0
  /\ idString = <<>>
  /\ parsed = <<>>

\* Every exported function, on every input.
Next ==
  \/ \E p \in ConnectInputs : Invoke("connectWallet", p, MaxFlows)
  \/ \E p \in ReadOnlyInputs : Invoke("callReadOnlyFunction", p, MaxFlows)
  \/ \E p \in ExecuteInputs : Invoke("executeContractCall", p, MaxFlows)
  \/ \E p \in TransferInputs : Invoke("transferSTX", p, MaxFlows)
  \/ \E p \in ExampleSwapInputs : Invoke("exampleSwapTokens", p, MaxFlows)
  \/ \E p \in GetUserVaultInputs : Invoke("getUserVault", p, MaxFlows)
  \/ \E p \in OpenVaultInputs : Invoke("openVault", p, MaxFlows)
  \/ \E p \in DepositInputs : Invoke("depositCollateral", p, MaxFlows)
  \/ \E p \in SwapInputs : Invoke("swapTokens", p, MaxFlows)
  \/ \E p \in GetStxPriceInputs : Invoke("getStxPrice", p, MaxFlows)
  \/ Invoke("exampleUserFlow", NoProps, MaxFlows)
  \/ \E q \in Requests : SignerFinish(q[1], q[2], MaxFlowSignals)
  \/ \E q \in Requests : SignerCancel(q[1], q[2], MaxFlowSignals)
  \/ \E q \in Requests, ok \in BOOLEAN : QueryRespond(q[1], q[2], ok)

Spec == Init /\ [][Next]_vars

\* Several submits pending at once, with the caller's callbacks.
NextConcurrent ==
  \/ \E p \in ExecuteCallbackInputs : Invoke("executeContractCall", p, MaxCalls)
  \/ \E p \in TransferCallbackInputs : Invoke("transferSTX", p, MaxCalls)
  \/ \E q \in Requests : SignerFinish(q[1], q[2], MaxSignals)
  \/ \E q \in Requests : SignerCancel(q[1], q[2], MaxSignals)

SpecConcurrent == Init /\ [][NextConcurrent]_vars

\* The parsing of an identifier string, on every string.
InitParse ==
  /\ calls = <<>>
  /\ nSignals = 0
  /\ idString \in Strings
  /\ parsed = <<>>

NextParse == ParseDestructured \/ ParseByIndex

SpecParse == InitParse /\ [][NextParse]_vars

(***************************************************************************)
(* Notions the properties below are stated in.                             *)
(***************************************************************************)
CallIds == 1..Len(calls)

DebitFlows == {"openVault", "depositCollateral", "swapTokens", "exampleSwapTokens"}
DomainFlows == DebitFlows \cup {"getUserVault", "getStxPrice", "exampleUserFlow"}
GatewayFunctions == {"callReadOnlyFunction", "executeContractCall", "transferSTX"}

\* The amount of the user's asset a debit flow's invocation spends.
DebitedAmount(call) ==
  CASE call.api = "openVault" -> call.params.collateralAmount
    [] call.api = "depositCollateral" -> call.params.amount
    [] OTHER -> call.params.amountIn

\* The state of the signer gateway for a request.
GatewayState(req) ==
  CASE req.promise.state = "pending" -> "AwaitingUser"
    [] req.promise.state = "resolved" -> "Approved"
    [] req.promise.state = "rejected" -> "Cancelled"

SignalNames(req) == [k \in 1..Signals(req) |->
  (CHOOSE e \in {req.events[i] : i \in 1..Len(req.events)} :
     e.ev = "signal" /\ e.signal = k).name]

\* The signals whose handler ran to its end: the caller's callback for that
\* signal was absent or returned.
Completed(req) == {k \in 1..Signals(req) : ~CallbackThrows(req, SignalNames(req)[k])}

Least(S) == CHOOSE k \in S : \A j \in S : k <= j

SettleCalls(req) == SelectSeq(req.events, LAMBDA e : e.ev \in {"resolve", "reject"})

IsCancellation(pr) ==
  /\ pr.state = "rejected"
  /\ pr.value \in {Error(CancelMessage(g)) :
                     g \in {"connectWallet", "executeContractCall", "transferSTX"}}

HasCancelled(call) ==
  \E r \in 1..Len(call.reqs) :
    call.reqs[r].boundary \in SignerBoundaries /\ IsCancellation(call.reqs[r].promise)

SignerRequests(call, boundary) ==
  Cardinality({r \in 1..Len(call.reqs) : call.reqs[r].boundary = boundary})

(***************************************************************************)
(* C1.  Every flow that debits a user-owned asset (openVault,              *)
(* depositCollateral, swapTokens, exampleSwapTokens) hands the signer a    *)
(* request with at least one post-condition on the user's address, with    *)
(* comparator LessEqual or Equal, bounding the debited amount.             *)
(* swapTokens passes postConditions: [], so this fails.                    *)
(***************************************************************************)
C1_DebitFlowsBoundTheDebit ==
  \A c \in CallIds :
    (calls[c].api \in DebitFlows /\ Len(calls[c].reqs) >= 1) =>
      \E i \in 1..Len(calls[c].reqs[1].payload.postConditions) :
        LET pc == calls[c].reqs[1].payload.postConditions[i]
        IN /\ pc.principal = calls[c].params.userAddress
           /\ pc.comparator \in {"LessEqual", "Equal"}
           /\ pc.amount = DebitedAmount(calls[c])

C3_StateMachine ==
  /\ [](\A c \in CallIds :
          LET req == calls[c].reqs[1]
          IN /\ Len(calls[c].reqs) = 1
             /\ req.boundary \in {"openContractCall", "openSTXTransfer"}
             /\ (Signals(req) = 0 => GatewayState(req) = "AwaitingUser")
             /\ (GatewayState(req) = "Approved" =>
                   \E k \in 1..Signals(req) : SignalNames(req)[k] = "onFinish")
             /\ (GatewayState(req) = "Cancelled" =>
                   \E k \in 1..Signals(req) : SignalNames(req)[k] = "onCancel")
             /\ ("value" \in DOMAIN calls[c].result => GatewayState(req) # "AwaitingUser"))
  /\ [][/\ \A c \in CallIds :
             /\ (GatewayState(calls[c].reqs[1]) = "AwaitingUser"
                   /\ GatewayState(calls'[c].reqs[1]) # "AwaitingUser")
                  => (nSignals' = nSignals + 1
                        /\ Signals(calls'[c].reqs[1]) = Signals(calls[c].reqs[1]) + 1)
             /\ GatewayState(calls[c].reqs[1]) # "AwaitingUser"
                  => GatewayState(calls'[c].reqs[1]) = GatewayState(calls[c].reqs[1])
        /\ Len(calls') > Len(calls) =>
             /\ Len(calls'[Len(calls')].reqs) = 1
             /\ GatewayState(calls'[Len(calls')].reqs[1]) = "AwaitingUser"]_vars

\* One submit has been approved, one cancelled.
C3_Witness ==
  \E c, d \in CallIds :
    /\ GatewayState(calls[c].reqs[1]) = "Approved"
    /\ GatewayState(calls[d].reqs[1]) = "Cancelled"

(***************************************************************************)
(* C4.  No layer retries.  An invocation of openVault, depositCollateral,  *)
(* swapTokens or exampleSwapTokens opens at most one signer interaction;   *)
(* exampleUserFlow opens at most one wallet connection and one contract    *)
(* call.  Once the signer has cancelled a request of an invocation, that   *)
(* invocation has ended, its caller holds the cancellation's own error as  *)
(* a failure, and it hands out no further request.                         *)
(***************************************************************************)
C4_NoRetryAfterCancel ==
  /\ [](\A c \in CallIds :
          /\ calls[c].api \in DebitFlows =>
               /\ Len(calls[c].reqs) <= 1
               /\ SignerRequests(calls[c], "openContractCall") = Len(calls[c].reqs)
          /\ calls[c].api = "exampleUserFlow" =>
               /\ SignerRequests(calls[c], "showConnect") = 1
               /\ SignerRequests(calls[c], "openContractCall") <= 1
          /\ HasCancelled(calls[c]) =>
               /\ calls[c].pc = "done"
               /\ calls[c].result = calls[c].reqs[Len(calls[c].reqs)].promise
               /\ IsCancellation(calls[c].result))
  /\ [][\A c \in CallIds :
          HasCancelled(calls[c]) =>
            /\ Len(calls'[c].reqs) = Len(calls[c].reqs)
            /\ calls'[c].result = calls[c].result]_vars

\* exampleUserFlow connected, read the price, and had its openVault cancelled:
\* it ended as a failure after three requests, and the signer signalled again.
C4_Witness ==
  \E c \in CallIds :
    /\ calls[c].api = "exampleUserFlow"
    /\ Len(calls[c].reqs) = 3
    /\ calls[c].result = [state |-> "rejected", value |-> Error("User cancelled transaction")]
    /\ Signals(calls[c].reqs[3]) = 2

(***************************************************************************)
(* C5, as claimed.  For every gateway function and every flow built on     *)
(* them, the network of the request handed to the boundary is Testnet      *)
(* exactly when the caller asked for testnet, and Mainnet otherwise.       *)
(***************************************************************************)
C5_NetworkFollowsCaller ==
  \A c \in CallIds :
    \A r \in 1..Len(calls[c].reqs) :
      "network" \in DOMAIN calls[c].reqs[r].payload =>
        calls[c].reqs[r].payload.network =
          IF "testnet" \in DOMAIN calls[c].params /\ calls[c].params.testnet
          THEN "Testnet" ELSE "Mainnet"

(***************************************************************************)
(* C5, amended.  For callReadOnlyFunction, executeContractCall and         *)
(* transferSTX the network of the request is Testnet exactly when the      *)
(* caller passed testnet: true, and Mainnet otherwise.  The flows built on *)
(* them take no network selection: every request they hand out is for      *)
(* Mainnet, whatever the caller passed.                                    *)
(***************************************************************************)
C5_GatewayFollowsCallerFlowsMainnet ==
  \A c \in CallIds :
    /\ (calls[c].api \in GatewayFunctions) =>
         calls[c].reqs[1].payload.network =
           IF "testnet" \in DOMAIN calls[c].params /\ calls[c].params.testnet
           THEN "Testnet" ELSE "Mainnet"
    /\ (calls[c].api \in DomainFlows) =>
         \A r \in 1..Len(calls[c].reqs) :
           "network" \in DOMAIN calls[c].reqs[r].payload =>
             calls[c].reqs[r].payload.network = "Mainnet"

\* openVault was called with testnet: true and its request is at the signer.
C5_Witness ==
  \E c \in CallIds :
    /\ calls[c].api = "openVault"
    /\ "testnet" \in DOMAIN calls[c].params /\ calls[c].params.testnet
    /\ calls[c].reqs[1].boundary = "openContractCall"

(***************************************************************************)
(* C6.  An identifier string without a '.' fails with FormatError and      *)
(* gives no partial identifier: a flow handed such a string ends in a      *)
(* FormatError, and no request at the signer carries a contract address    *)
(* without a name, as its target or among its arguments.                   *)
(* exampleSwapTokens hands on a dexContract without a '.', so this fails.  *)
(***************************************************************************)
C6_NoRequestWithoutName ==
  \A c \in CallIds :
    /\ \A r \in 1..Len(calls[c].reqs) :
         calls[c].reqs[r].boundary = "openContractCall" =>
           /\ "contractName" \in DOMAIN calls[c].reqs[r].payload
           /\ \A i \in 1..Len(calls[c].reqs[r].payload.functionArgs) :
                calls[c].reqs[r].payload.functionArgs[i].type = "contract" =>
                  "name" \in DOMAIN calls[c].reqs[r].payload.functionArgs[i]
    /\ (\/ \E t \in TokenStrings(calls[c].api, calls[c].params) : ~HasDot(t)
        \/ (calls[c].api = "exampleSwapTokens" /\ ~HasDot(calls[c].params.dexContract)))
         => /\ calls[c].reqs = <<>>
            /\ calls[c].result.state = "rejected"
            /\ calls[c].result.value.kind = "FormatError"

(***************************************************************************)
(* C7, as claimed.  For every string with at least one '.', the (address,  *)
(* name) pair the flows parse, joined with '.', is the string again: the   *)
(* name is everything after the first '.'.                                 *)
(***************************************************************************)
C7_RoundTripAnyDots ==
  (parsed # <<>> /\ HasDot(idString)) =>
    /\ Rejoin(parsed[1].id) = idString
    /\ parsed[1].id.name = SubSeq(idString, FirstDot(idString) + 1, Len(idString))

(***************************************************************************)
(* C7, amended.  For every string with exactly one '.', the (address,      *)
(* name) pair the flows parse, joined with '.', is the string again.  The  *)
(* split is made at every '.', and only the first two parts are kept: a    *)
(* string with two or more '.' gives back only what precedes its second    *)
(* '.', and a string without a '.' gives an address and no name.           *)
(***************************************************************************)
C7_RoundTripOneDot ==
  parsed # <<>> =>
    LET id == parsed[1].id
    IN /\ NumDots(idString) = 0 => id = [address |-> idString]
       /\ NumDots(idString) = 1 => Rejoin(id) = idString
       /\ NumDots(idString) >= 2 =>
            /\ Rejoin(id) # idString
            /\ Rejoin(id) = SubSeq(idString, 1, Len(Rejoin(id)))
            /\ NumDots(Rejoin(id)) = 1
            /\ idString[Len(Rejoin(id)) + 1] = Dot

\* "a.b" has been parsed.
C7_Witness ==
  /\ parsed # <<>>
  /\ NumDots(idString) = 1
  /\ Len(idString) = 3 /\ idString[2] = Dot
  /\ "name" \in DOMAIN parsed[1].id

(***************************************************************************)
(* C8.  Concurrent submits are independent.  While submits are pending a   *)
(* further submit can be made, and it reaches the signer in the step that  *)
(* makes it; the signer can complete any pending submit next, whatever the *)
(* order they were made in; a step changes one submit only, and only a     *)
(* signal for its own request; a submit's outcome is the data of a signal  *)
(* for its own request.                                                    *)
(***************************************************************************)
C8_IndependentSubmits ==
  /\ [](/\ Len(calls) < MaxCalls =>
             /\ ENABLED (\E p \in ExecuteCallbackInputs :
                             Invoke("executeContractCall", p, MaxCalls))
                /\ ENABLED (\E p \in TransferCallbackInputs :
                             Invoke("transferSTX", p, MaxCalls))
        /\ \A c \in CallIds :
             /\ nSignals < MaxSignals =>
                  /\ ENABLED SignerFinish(c, 1, MaxSignals)
                  /\ ENABLED SignerCancel(c, 1, MaxSignals)
             /\ calls[c].result.state = "resolved" =>
                  \E k \in 1..Signals(calls[c].reqs[1]) :
                    /\ SignalNames(calls[c].reqs[1])[k] = "onFinish"
                    /\ calls[c].result.value =
                         [txId |-> SignerData(c, 1, k).txId,
                          txRaw |-> SignerData(c, 1, k).txRaw])
  /\ [][/\ \A c \in CallIds :
             calls'[c] # calls[c] =>
               /\ Signals(calls'[c].reqs[1]) = Signals(calls[c].reqs[1]) + 1
               /\ \A d \in CallIds \ {c} : calls'[d] = calls[d]
               /\ Len(calls') = Len(calls)
        /\ Len(calls') > Len(calls) =>
             /\ Len(calls'[Len(calls')].reqs) = 1
             /\ calls'[Len(calls')].reqs[1].promise.state = "pending"]_vars

\* Two submits were pending at once; the second was approved first and the
\* first was cancelled after it.
C8_Witness ==
  /\ Len(calls) = 2
  /\ calls[2].result.state = "resolved"
  /\ calls[2].result.value.txId = <<"tx", 2, 1, 1>>
  /\ calls[1].result.state = "rejected"
  /\ nSignals = 2

(***************************************************************************)
(* C9.  The request executeContractCall hands to the signer carries the    *)
(* caller's functionArgs in the caller's order, the caller's               *)
(* postConditions (none when omitted), and postConditionMode Deny whatever *)
(* postConditionMode the caller passed; openVault's request carries its    *)
(* four arguments, its one post-condition and Deny.                        *)
(***************************************************************************)
C9_RequestCarriesArgsAndDeny ==
  \A c \in CallIds :
    /\ calls[c].api = "executeContractCall" =>
         LET payload == calls[c].reqs[1].payload
         IN /\ payload.functionArgs =
                 (IF "functionArgs" \in DOMAIN calls[c].params
                  THEN calls[c].params.functionArgs ELSE <<>>)
            /\ payload.postConditions =
                 (IF "postConditions" \in DOMAIN calls[c].params
                  THEN calls[c].params.postConditions ELSE <<>>)
            /\ payload.postConditionMode = "Deny"
    /\ calls[c].api = "openVault" =>
         LET payload == calls[c].reqs[1].payload
         IN /\ payload.functionArgs =
                 <<[type |-> "uint", value |-> calls[c].params.collateralAmount],
                   [type |-> "uint", value |-> calls[c].params.debtAmount],
                   [type |-> "string-ascii", value |-> "STX-A"],
                   [type |-> "principal", address |-> calls[c].params.userAddress]>>
            /\ Len(payload.postConditions) = 1
            /\ payload.postConditionMode = "Deny"

\* executeContractCall was given two arguments, one post-condition and
\* postConditionMode Allow.
C9_Witness ==
  \E c \in CallIds :
    /\ calls[c].api = "executeContractCall"
    /\ "postConditionMode" \in DOMAIN calls[c].params
    /\ calls[c].params.postConditionMode = "Allow"
    /\ Len(calls[c].reqs[1].payload.functionArgs) = 2
    /\ Len(calls[c].reqs[1].payload.postConditions) = 1

(***************************************************************************)
(* C10.  In executeContractCall and transferSTX a handler calls the        *)
(* caller's callback, with the signer's data for onFinish, before it       *)
(* settles the promise, and settles it only if the callback returned.      *)
(* The promise is settled as soon as one handler has run to its end, by    *)
(* the first such handler, and a settled promise never changes, however    *)
(* often the signer signals.                                               *)
(***************************************************************************)
C10_CallbackThenSettleOnce ==
  /\ [](\A c \in CallIds :
          LET req == calls[c].reqs[1]
              settles == SettleCalls(req)
          IN /\ \A i \in 1..Len(req.events) :
                  LET e == req.events[i]
                      name == IF e.ev = "resolve" THEN "onFinish" ELSE "onCancel"
                  IN (e.ev \in {"resolve", "reject"} /\ name \in DOMAIN req.closure) =>
                       /\ i > 1
                       /\ req.events[i - 1] =
                            [ev |-> "callback", name |-> name, threw |-> FALSE,
                             signal |-> e.signal,
                             args |-> IF name = "onFinish"
                                      THEN <<SignerData(c, 1, e.signal)>> ELSE <<>>]
             /\ \A i \in 1..Len(req.events) :
                  (req.events[i].ev = "callback" /\ req.events[i].threw) =>
                    (i = Len(req.events) \/ req.events[i + 1].ev = "signal")
             /\ (req.promise.state # "pending") = (Completed(req) # {})
             /\ req.promise.state # "pending" =>
                  /\ settles[1].signal = Least(Completed(req))
                  /\ req.promise.value = settles[1].value
                  /\ req.promise.state = (IF settles[1].ev = "resolve"
                                          THEN "resolved" ELSE "rejected")
             /\ calls[c].result = req.promise)
  /\ [][\A c \in CallIds :
          calls[c].result.state # "pending" => calls'[c].result = calls[c].result]_vars

\* A submit whose onFinish callback threw and left the promise pending was
\* then cancelled, its onCancel callback returned, and the promise rejected.
C10_Witness ==
  \E c \in CallIds :
    LET req == calls[c].reqs[1]
    IN /\ Signals(req) = 2
       /\ req.closure = [onFinish |-> "throws", onCancel |-> "returns"]
       /\ SignalNames(req) = <<"onFinish", "onCancel">>
       /\ calls[c].result.state = "rejected"

====
